---- MODULE Spec2Model ----
(***************************************************************************)
(* Model of PrintGuard's stream-ingestion layer:                           *)
(*   printguard/utils/mjpeg_client.py   (MJPEGClient)                      *)
(*   printguard/utils/webrtc_client.py  (WebRTCClient)                     *)
(* One stream handle is modelled; Init chooses which engine it is.  The    *)
(* caller thread, the background capture threads of MJPEGClient, and the   *)
(* background thread of WebRTCClient (its asyncio loop with the _run and   *)
(* _consume_track coroutines) interleave step by step.                     *)
(***************************************************************************)
EXTENDS Integers, Sequences, FiniteSets, TLC

(* ------------------------------ bounds -------------------------------- *)
\* capture threads one MJPEG handle may create over its life
MaxThreads == 2
\* largest chunk iter_content hands over in the byte-level specification
MaxChunk == 6
\* connection failures the network produces over the life of a handle
MaxNetFailures == 1
\* the same, where one capture thread is followed through the whole backoff
MaxDecFailures == 8
\* time.time() when the handle is constructed, and how far the clock runs
StartTime == 5
MaxTicks == 6
\* media samples one track delivers
MaxSamples == 3
\* inbound messages on the keepalive data channel
MaxPings == 1
\* the most fingerprints a remote description advertises
MaxFingerprints == 2

(* ------------------------- program constants -------------------------- *)
FF == 255
D8 == 216
D9 == 217
BackoffFloor == 1
BackoffCap == 30
TimeoutSec == 5          \* self._timeout_sec
GatherWait == 3          \* the bound of the ICE gathering wait
NoPts == -1              \* self._last_pts = None
SessionId == 42          \* the "id" of the server's offer

\* bytes of the model's streams besides the marker bytes
GoodBytes == {1, 2}      \* image data cv2 can decode
BadByte == 0             \* image data cv2 cannot decode
NoiseByte == 7           \* multipart header text between the images

None == <<>>

Threads == 1..MaxThreads

VARIABLES
    engine,        \* "mjpeg" | "webrtc": the class of the handle
    upstream,      \* "live" | "stalled": whether the camera still produces frames
    served,        \* the byte streams the camera may answer a GET with
    chunkLens,     \* the chunk lengths iter_content may hand over
    failuresLeft,  \* connection failures the network will still produce
    caller,        \* the caller thread: [pc, lastOp, ok, frame, reads]: where
                   \* it is, the last call that returned, what a read()
                   \* returned, and the parity of the read() calls so far
    \* ---- MJPEGClient
    running,       \* self.running
    opened,        \* self.opened
    last_frame,    \* self.last_frame
    thread,        \* self.thread: 0 (None) or the id of the last thread started
    mj,            \* the capture threads: [Threads -> [pc, retry_delay, ...]]
    \* ---- WebRTCClient
    aiohttp,       \* whether the aiohttp import succeeded (lines 12-15)
    now,           \* time.time()
    stopped,       \* self.stopped
    queue,         \* self.queue: queue.Queue(maxsize=1)
    latest_frame,  \* self._latest_frame
    last_frame_time, \* self._last_frame_time
    last_pts,      \* self._last_pts
    pc,            \* self.pc: 0 (None), or which RTCPeerConnection it holds
    pcState,       \* the RTCPeerConnection objects: "none" | "open" | "closed"
    pk,            \* self.pk: 0 (None) or the id the offer carried
    rtc,           \* the background thread: _run_thread and the _run coroutine
    consume,       \* the _consume_track task: [pc, img]
    samples,       \* media samples the track has delivered so far
    \* ---- RTCDtlsTransport (aiortc), as _patched_validate_peer_identity sees it
    dtls           \* [pc, legacy, fingerprints, known, i, digest_str, expected,
                   \*  state, outcome]

mjVars == <<running, opened, last_frame, thread, mj, failuresLeft>>

rtcVars == <<now, stopped, queue, latest_frame, last_frame_time, last_pts,
             pc, pcState, pk, rtc, consume, samples>>

\* what no method of the two clients writes
envVars == <<engine, served, chunkLens, aiohttp, dtls>>

vars == <<envVars, upstream, caller, mjVars, rtcVars>>

(* --------------------------- byte helpers ----------------------------- *)
Min(S) == CHOOSE x \in S : \A y \in S : x <= y

\* bytes.find(pat, start) for a two-byte pattern: 0-based index or -1
Find(buf, pat, start) ==
    LET hits == {i \in start..(Len(buf) - 2) :
                    buf[i + 1] = pat[1] /\ buf[i + 2] = pat[2]}
    IN  IF hits = {} THEN -1 ELSE Min(hits)

\* buf[a:b]
Slice(buf, a, b) == SubSeq(buf, a + 1, b)

\* cv2.imdecode: the decoded frame, or None for a payload it cannot decode.
\* A frame is identified by the image data between the markers.
Imdecode(jpg) ==
    LET body == SubSeq(jpg, 3, Len(jpg) - 2)
    IN  IF body # <<>> /\ \A i \in 1..Len(body) : body[i] \in GoodBytes
        THEN body ELSE None

\* min(retry_delay * 2, 30)
NextDelay(d) == IF d * 2 < BackoffCap THEN d * 2 ELSE BackoffCap

(* ====================== MJPEGClient: capture thread =================== *)
NewThread == [pc |-> "head", retry_delay |-> BackoffFloor, bytes_buffer |-> <<>>,
              chunk |-> <<>>, wire |-> <<>>, stream |-> <<>>, emitted |-> <<>>]

NoThread == [NewThread EXCEPT !.pc = "none"]

\* threading.Thread.is_alive()
Alive(t) == mj[t].pc \notin {"none", "done"}

\* line 62: while self.running
LoopHead(t) ==
    /\ engine = "mjpeg"
    /\ mj[t].pc = "head"
    /\ mj' = [mj EXCEPT ![t].pc = IF running THEN "get" ELSE "done"]
    /\ UNCHANGED <<envVars, failuresLeft, upstream, caller,
                   running, opened, last_frame, thread, rtcVars>>

\* line 65: requests.get raises (timeout, refused, reset): handler of line 112
ConnectError(t) ==
    /\ mj[t].pc = "get"
    /\ failuresLeft > 0
    /\ failuresLeft' = failuresLeft - 1
    /\ mj' = [mj EXCEPT ![t].pc = "sleep_exc"]
    /\ UNCHANGED <<envVars, upstream, caller, running,
                   opened, last_frame, thread, rtcVars>>

\* lines 66-68: the response has a status other than 200
ConnectStatus(t) ==
    /\ mj[t].pc = "get"
    /\ failuresLeft > 0
    /\ failuresLeft' = failuresLeft - 1
    /\ mj' = [mj EXCEPT ![t].pc = "sleep_status"]
    /\ UNCHANGED <<envVars, upstream, caller, running,
                   opened, last_frame, thread, rtcVars>>

\* a connection that goes on with the accumulator of the previous one
ConnectOkKeepingBuffer(t) ==
    /\ mj[t].pc = "get"
    /\ \E s \in served :
         mj' = [mj EXCEPT ![t].pc = "iter",
                          ![t].wire = s, ![t].stream = s, ![t].emitted = <<>>]
    /\ UNCHANGED <<envVars, failuresLeft, upstream, caller,
                   running, opened, last_frame, thread, rtcVars>>

\* lines 65-84: status 200; bytes_buffer = b''.  The camera will send `s`.
ConnectOk(t) ==
    /\ mj[t].pc = "get"
    /\ \E s \in served :
         mj' = [mj EXCEPT ![t].pc = "iter", ![t].bytes_buffer = <<>>,
                          ![t].wire = s, ![t].stream = s, ![t].emitted = <<>>]
    /\ UNCHANGED <<envVars, failuresLeft, upstream, caller,
                   running, opened, last_frame, thread, rtcVars>>

\* lines 85-87: iter_content hands over the next chunk; break if stopped
NextChunk(t) ==
    /\ mj[t].pc = "iter"
    /\ upstream = "live"
    /\ \E n \in chunkLens :
         /\ n <= Len(mj[t].wire)
         /\ mj' = [mj EXCEPT
                ![t].wire = SubSeq(mj[t].wire, n + 1, Len(mj[t].wire)),
                ![t].chunk = IF running THEN SubSeq(mj[t].wire, 1, n) ELSE <<>>,
                ![t].pc = IF running THEN "proc" ELSE "head"]
    /\ UNCHANGED <<envVars, failuresLeft, upstream, caller,
                   running, opened, last_frame, thread, rtcVars>>

\* line 85: the camera closed the response: the for loop ends, no sleep
StreamEnd(t) ==
    /\ mj[t].pc = "iter"
    /\ mj[t].wire = <<>>
    /\ mj' = [mj EXCEPT ![t].pc = "head"]
    /\ UNCHANGED <<envVars, failuresLeft, upstream, caller,
                   running, opened, last_frame, thread, rtcVars>>

\* line 85: iter_content raises (read timeout, reset): handler of line 112
StreamError(t) ==
    /\ mj[t].pc = "iter"
    /\ failuresLeft > 0
    /\ failuresLeft' = failuresLeft - 1
    /\ mj' = [mj EXCEPT ![t].pc = "sleep_exc"]
    /\ UNCHANGED <<envVars, upstream, caller, running,
                   opened, last_frame, thread, rtcVars>>

\* a scan that drops what precedes the start marker before the end marker
\* has arrived
ScanTrimming(buf) ==
    LET a == Find(buf, <<FF, D8>>, 0)
        b == IF a # -1 THEN Find(buf, <<FF, D9>>, a) ELSE -1
    IN  IF a # -1 /\ b # -1
        THEN [found |-> TRUE, jpg |-> Slice(buf, a, b + 2),
              rest |-> Slice(buf, b + 2, Len(buf))]
        ELSE [found |-> FALSE, jpg |-> <<>>,
              rest |-> IF a # -1 THEN Slice(buf, a, Len(buf)) ELSE buf]

\* lines 89-110: append the chunk, cut out at most one payload, decode it
Scan(buf) ==
    LET a == Find(buf, <<FF, D8>>, 0)
        b == IF a # -1 THEN Find(buf, <<FF, D9>>, a) ELSE -1
    IN  IF a # -1 /\ b # -1
        THEN [found |-> TRUE, jpg |-> Slice(buf, a, b + 2),
              rest |-> Slice(buf, b + 2, Len(buf))]
        ELSE [found |-> FALSE, jpg |-> <<>>, rest |-> buf]

Process(t) ==
    /\ mj[t].pc = "proc"
    /\ LET sc == Scan(mj[t].bytes_buffer \o mj[t].chunk)
           frame == IF sc.found THEN Imdecode(sc.jpg) ELSE None
       IN  /\ mj' = [mj EXCEPT
                  ![t].pc = "iter",
                  ![t].chunk = <<>>,
                  ![t].bytes_buffer = sc.rest,
                  ![t].emitted = IF frame # None THEN Append(@, frame) ELSE @,
                  ![t].retry_delay = IF frame # None THEN BackoffFloor ELSE @]
           /\ last_frame' = IF frame # None THEN frame ELSE last_frame
    /\ UNCHANGED <<envVars, failuresLeft, upstream, caller,
                   running, opened, thread, rtcVars>>

\* lines 68-69: time.sleep(retry_delay); continue
StatusSleepDone(t) ==
    /\ mj[t].pc = "sleep_status"
    /\ mj' = [mj EXCEPT ![t].pc = "head"]
    /\ UNCHANGED <<envVars, failuresLeft, upstream, caller,
                   running, opened, last_frame, thread, rtcVars>>

\* lines 114-115: time.sleep(retry_delay); retry_delay = min(retry_delay*2, 30)
ErrorSleepDone(t) ==
    /\ mj[t].pc = "sleep_exc"
    /\ mj' = [mj EXCEPT ![t].pc = "head",
                        ![t].retry_delay = NextDelay(mj[t].retry_delay)]
    /\ UNCHANGED <<envVars, failuresLeft, upstream, caller,
                   running, opened, last_frame, thread, rtcVars>>

\* the thread is inside a call that can outlast the join of stop():
\* requests.get / iter_content (timeout=10) or time.sleep(retry_delay)
MJBlocked(t) == mj[t].pc \in {"get", "iter", "sleep_status", "sleep_exc"}

(* ====================== MJPEGClient: caller side ====================== *)
Returned(op) ==
    [pc |-> "idle", lastOp |-> op, ok |-> FALSE, frame |-> None, reads |-> 0]

ReadReturned(ok, frame) ==
    [pc |-> "idle", lastOp |-> "read", ok |-> ok, frame |-> frame,
     reads |-> IF caller.lastOp = "read" THEN 1 - caller.reads ELSE 0]

\* a start() that also marks the handle open again
MJStartReopening ==
    /\ engine = "mjpeg"
    /\ caller.pc = "idle"
    /\ IF running
       THEN UNCHANGED <<running, thread, mj>>
       ELSE /\ \E t \in Threads : mj[t].pc = "none"
            /\ LET t == Min({u \in Threads : mj[u].pc = "none"})
               IN  /\ running' = TRUE
                   /\ thread' = t
                   /\ mj' = [mj EXCEPT ![t] = NewThread]
    /\ opened' = TRUE
    /\ caller' = Returned("start")
    /\ UNCHANGED <<envVars, failuresLeft, upstream, last_frame, rtcVars>>

\* lines 29-34: start()
MJStart ==
    /\ engine = "mjpeg"
    /\ caller.pc = "idle"
    /\ IF running
       THEN UNCHANGED <<running, thread, mj>>
       ELSE /\ \E t \in Threads : mj[t].pc = "none"
            /\ LET t == Min({u \in Threads : mj[u].pc = "none"})
               IN  /\ running' = TRUE
                   /\ thread' = t
                   /\ mj' = [mj EXCEPT ![t] = NewThread]
    /\ caller' = Returned("start")
    /\ UNCHANGED <<envVars, failuresLeft, upstream,
                   opened, last_frame, rtcVars>>

\* a stop() that also drops the cached frame
MJStopClearing ==
    /\ engine = "mjpeg"
    /\ caller.pc = "idle"
    /\ running' = FALSE
    /\ opened' = FALSE
    /\ last_frame' = None
    /\ caller' = IF thread # 0 /\ Alive(thread)
                 THEN [caller EXCEPT !.pc = "join"]
                 ELSE Returned("stop")
    /\ UNCHANGED <<envVars, failuresLeft, upstream, thread, mj, rtcVars>>

\* lines 36-43: stop() / release() up to the join
MJStop ==
    /\ engine = "mjpeg"
    /\ caller.pc = "idle"
    /\ running' = FALSE
    /\ opened' = FALSE
    /\ caller' = IF thread # 0 /\ Alive(thread)
                 THEN [caller EXCEPT !.pc = "join"]
                 ELSE Returned("stop")
    /\ UNCHANGED <<envVars, failuresLeft, upstream,
                   last_frame, thread, mj, rtcVars>>

\* line 40: thread.join(timeout=1.0) returns because the thread ended
MJJoinDone ==
    /\ engine = "mjpeg"
    /\ caller.pc = "join"
    /\ ~Alive(thread)
    /\ caller' = Returned("stop")
    /\ UNCHANGED <<envVars, failuresLeft, upstream, running,
                   opened, last_frame, thread, mj, rtcVars>>

\* line 40: thread.join(timeout=1.0) returns because the second elapsed
MJJoinTimeout ==
    /\ engine = "mjpeg"
    /\ caller.pc = "join"
    /\ Alive(thread)
    /\ MJBlocked(thread)
    /\ caller' = Returned("stop")
    /\ UNCHANGED <<envVars, failuresLeft, upstream, running,
                   opened, last_frame, thread, mj, rtcVars>>

\* lines 45-46: isOpened()
MJIsOpened == opened

\* a read() that reports success whether or not a frame is cached
MJReadUnchecked ==
    /\ engine = "mjpeg"
    /\ caller.pc = "idle"
    /\ caller' = ReadReturned(TRUE, last_frame)
    /\ UNCHANGED <<envVars, failuresLeft, upstream, running,
                   opened, last_frame, thread, mj, rtcVars>>

\* lines 48-56: read()
MJRead ==
    /\ engine = "mjpeg"
    /\ caller.pc = "idle"
    /\ caller' = ReadReturned(last_frame # None, last_frame)
    /\ UNCHANGED <<envVars, failuresLeft, upstream, running,
                   opened, last_frame, thread, mj, rtcVars>>


(* ====================== WebRTCClient: background thread =============== *)
MaxTime == StartTime + MaxTicks

\* presentation timestamps a sample may carry
PtsValues == {100, 200}

NoTask == [pc |-> "none", img |-> None]

\* threading.Thread.is_alive() of self.thread
RTCAlive == rtc.pc # "dead"

\* the asyncio loop runs one coroutine at a time: _run moves on only while
\* _consume_track is suspended (or not started, or over)
LoopFree == consume.pc \in {"none", "head", "recv", "done"}

\* _run is suspended at an await, so the loop can run _consume_track
RunSuspended == rtc.pc \notin {"boot", "ret", "finally", "dead"}

RtcStep(to) == rtc' = [rtc EXCEPT !.pc = to]

\* track.recv() raises once its peer connection is closed: the task breaks
TaskAfterClose == IF consume.pc = "none" THEN consume
                  ELSE [NoTask EXCEPT !.pc = "done"]

\* lines 78-82, 96-120: the thread starts its loop and runs _run up to the
\* first request of _connect_custom
RunStart ==
    /\ engine = "webrtc"
    /\ rtc.pc = "boot"
    /\ IF aiohttp
       THEN /\ rtc' = [rtc EXCEPT !.pc = "custom_post", !.loopRunning = TRUE]
            /\ pc' = 1
            /\ pcState' = [pcState EXCEPT ![1] = "open"]
       ELSE /\ rtc' = [rtc EXCEPT !.pc = "ret", !.loopRunning = TRUE]
            /\ UNCHANGED <<pc, pcState>>
    /\ UNCHANGED <<envVars, upstream, caller, mjVars, now, stopped, queue,
                   latest_frame, last_frame_time, last_pts, pk, consume, samples>>

\* how the first POST of _connect_custom can go wrong (lines 155-164, 193)
PostFailures == {"exception", "status", "malformed", "not_offer"}

\* lines 155-167: the answer to the request
CustomPost ==
    /\ rtc.pc = "custom_post"
    /\ LoopFree
    /\ \/ /\ \E why \in PostFailures :
               rtc' = [rtc EXCEPT !.pc = "whep_close", !.custom = "failed"]
          /\ pk' = pk
       \/ /\ RtcStep("custom_remote")
          /\ pk' = SessionId
    /\ UNCHANGED <<envVars, upstream, caller, mjVars, now, stopped, queue,
                   latest_frame, last_frame_time, last_pts, pc, pcState,
                   consume, samples>>

\* lines 169-170: setRemoteDescription(offer); the track event starts
\* _consume_track (lines 104-108)
CustomSetRemote ==
    /\ rtc.pc = "custom_remote"
    /\ LoopFree
    /\ \/ /\ RtcStep("custom_answer")
          /\ consume' = [NoTask EXCEPT !.pc = "head"]
       \/ /\ rtc' = [rtc EXCEPT !.pc = "whep_close", !.custom = "failed"]
          /\ consume' = consume
    /\ UNCHANGED <<envVars, upstream, caller, mjVars, now, stopped, queue,
                   latest_frame, last_frame_time, last_pts, pc, pcState, pk,
                   samples>>

\* lines 173-177: createAnswer, setLocalDescription, start_gather
CustomAnswer ==
    /\ rtc.pc = "custom_answer"
    /\ LoopFree
    /\ \/ \E g \in {"gathering", "complete"} :
            rtc' = [rtc EXCEPT !.pc = "custom_gather", !.start_gather = now,
                               !.ice = g]
       \/ rtc' = [rtc EXCEPT !.pc = "whep_close", !.custom = "failed"]
    /\ UNCHANGED <<envVars, upstream, caller, mjVars, now, stopped, queue,
                   latest_frame, last_frame_time, last_pts, pc, pcState, pk,
                   consume, samples>>

\* line 178: self.pc.iceGatheringState becomes "complete" during the wait
IceGatheringComplete ==
    /\ rtc.pc = "custom_gather"
    /\ LoopFree
    /\ rtc.ice = "gathering"
    /\ rtc' = [rtc EXCEPT !.ice = "complete"]
    /\ UNCHANGED <<envVars, upstream, caller, mjVars, now, stopped, queue,
                   latest_frame, last_frame_time, last_pts, pc, pcState, pk,
                   consume, samples>>

\* an answer posted as soon as it is set, without the gathering wait
CustomGatherSkipped ==
    /\ rtc.pc = "custom_gather"
    /\ LoopFree
    /\ rtc' = [rtc EXCEPT !.pc = "custom_answer_post", !.start_gather = 0,
                          !.ice = "new", !.answered = pk]
    /\ UNCHANGED <<envVars, upstream, caller, mjVars, now, stopped, queue,
                   latest_frame, last_frame_time, last_pts, pc, pcState, pk,
                   consume, samples>>

\* lines 178-187: the gathering wait ends (complete, or 3 elapsed) and the
\* answer is posted with "id": self.pk (answered: the id of the answer
\* request in flight).  start_gather and the gathering state are read by
\* the wait only, and are forgotten once it is over.
CustomGatherDone ==
    /\ rtc.pc = "custom_gather"
    /\ LoopFree
    /\ rtc.ice = "complete" \/ now - rtc.start_gather >= GatherWait
    /\ rtc' = [rtc EXCEPT !.pc = "custom_answer_post", !.start_gather = 0,
                          !.ice = "new", !.answered = pk]
    /\ UNCHANGED <<envVars, upstream, caller, mjVars, now, stopped, queue,
                   latest_frame, last_frame_time, last_pts, pc, pcState, pk,
                   consume, samples>>

\* a rejected answer ending _run without the WHEP attempt
CustomAnswerPostGiveUp ==
    /\ rtc.pc = "custom_answer_post"
    /\ LoopFree
    /\ \/ rtc' = [rtc EXCEPT !.pc = "keepalive", !.custom = "connected",
                               !.connected = TRUE, !.answered = 0]
       \/ rtc' = [rtc EXCEPT !.pc = "ret", !.custom = "failed",
                               !.answered = 0]
    /\ UNCHANGED <<envVars, upstream, caller, mjVars, now, stopped, queue,
                   latest_frame, last_frame_time, last_pts, pc, pcState, pk,
                   consume, samples>>

\* lines 187-195: the answer to the posted answer; the request is over
CustomAnswerPost ==
    /\ rtc.pc = "custom_answer_post"
    /\ LoopFree
    /\ \/ rtc' = [rtc EXCEPT !.pc = "keepalive", !.custom = "connected",
                               !.connected = TRUE, !.answered = 0]
       \/ \E why \in {"exception", "status"} :
            rtc' = [rtc EXCEPT !.pc = "whep_close", !.custom = "failed",
                               !.answered = 0]
    /\ UNCHANGED <<envVars, upstream, caller, mjVars, now, stopped, queue,
                   latest_frame, last_frame_time, last_pts, pc, pcState, pk,
                   consume, samples>>

\* lines 124-132: close the peer connection, make a new one for WHEP
WhepFallback ==
    /\ rtc.pc = "whep_close"
    /\ LoopFree
    /\ rtc' = [rtc EXCEPT !.pc = "whep_offer", !.whep = @ + 1]
    /\ pcState' = [pcState EXCEPT ![pc] = "closed", ![2] = "open"]
    /\ pc' = 2
    /\ consume' = TaskAfterClose
    /\ UNCHANGED <<envVars, upstream, caller, mjVars, now, stopped, queue,
                   latest_frame, last_frame_time, last_pts, pk, samples>>

\* lines 200-202: addTransceiver, createOffer, setLocalDescription
WhepOffer ==
    /\ rtc.pc = "whep_offer"
    /\ LoopFree
    /\ \/ RtcStep("whep_post")
       \/ RtcStep("ret")
    /\ UNCHANGED <<envVars, upstream, caller, mjVars, now, stopped, queue,
                   latest_frame, last_frame_time, last_pts, pc, pcState, pk,
                   consume, samples>>

\* lines 204-210: the answer to the posted offer (200 or 201, or not)
WhepPost ==
    /\ rtc.pc = "whep_post"
    /\ LoopFree
    /\ \/ RtcStep("whep_remote")
       \/ RtcStep("ret")
    /\ UNCHANGED <<envVars, upstream, caller, mjVars, now, stopped, queue,
                   latest_frame, last_frame_time, last_pts, pc, pcState, pk,
                   consume, samples>>

\* lines 211-216: setRemoteDescription(answer); the track event starts
\* _consume_track (lines 128-132)
WhepSetRemote ==
    /\ rtc.pc = "whep_remote"
    /\ LoopFree
    /\ \/ /\ rtc' = [rtc EXCEPT !.pc = "keepalive", !.connected = TRUE]
          /\ consume' = [NoTask EXCEPT !.pc = "head"]
       \/ /\ RtcStep("ret")
          /\ consume' = consume
    /\ UNCHANGED <<envVars, upstream, caller, mjVars, now, stopped, queue,
                   latest_frame, last_frame_time, last_pts, pc, pcState, pk,
                   samples>>

\* lines 110-113: the peer connection made at line 102 is given the
\* datachannel handler; the one made at line 127 for WHEP gets on_track only
OnDatachannel(p) == p = 1

\* lines 113-120: a message arrives on the data channel labelled
\* "keepalive" of the session the engine holds; on_message, where it was
\* registered, sends "pong"
KeepaliveMessage ==
    /\ rtc.pc = "keepalive"
    /\ LoopFree
    /\ pc # 0
    /\ pcState[pc] = "open"
    /\ rtc.pings < MaxPings
    /\ rtc' = [rtc EXCEPT !.pings = @ + 1,
                          !.pongs = IF OnDatachannel(pc) THEN @ + 1 ELSE @]
    /\ UNCHANGED <<envVars, upstream, caller, mjVars, now, stopped, queue,
                   latest_frame, last_frame_time, last_pts, pc, pcState, pk,
                   consume, samples>>

\* lines 141-142: the keep-alive loop sees self.stopped
KeepAliveExit ==
    /\ rtc.pc = "keepalive"
    /\ LoopFree
    /\ stopped
    /\ RtcStep("ret")
    /\ UNCHANGED <<envVars, upstream, caller, mjVars, now, stopped, queue,
                   latest_frame, last_frame_time, last_pts, pc, pcState, pk,
                   consume, samples>>

\* line 82: _run returned, so run_until_complete returns: the loop has stopped
RunReturn ==
    /\ rtc.pc = "ret"
    /\ rtc' = [rtc EXCEPT !.pc = "finally", !.loopRunning = FALSE]
    /\ UNCHANGED <<envVars, upstream, caller, mjVars, now, stopped, queue,
                   latest_frame, last_frame_time, last_pts, pc, pcState, pk,
                   consume, samples>>

\* lines 85-94: finally: if self.loop.is_running(), cancel the tasks and
\* run _cleanup (which closes self.pc); the thread ends
ThreadFinally ==
    /\ rtc.pc = "finally"
    /\ RtcStep("dead")
    /\ IF rtc.loopRunning
       THEN /\ consume' = IF consume.pc = "none" THEN consume
                          ELSE [NoTask EXCEPT !.pc = "done"]
            /\ pcState' = IF pc # 0 THEN [pcState EXCEPT ![pc] = "closed"]
                          ELSE pcState
       ELSE UNCHANGED <<consume, pcState>>
    /\ UNCHANGED <<envVars, upstream, caller, mjVars, now, stopped, queue,
                   latest_frame, last_frame_time, last_pts, pc, pk, samples>>

(* ====================== WebRTCClient: _consume_track ================== *)
\* media reaches the track once the remote side has the local description
MediaFlows ==
    /\ pc # 0
    /\ pcState[pc] = "open"
    /\ rtc.pc \in {"custom_answer_post", "keepalive"}

\* line 220: while not self.stopped
ConsumeHead ==
    /\ consume.pc = "head"
    /\ RunSuspended
    /\ consume' = [consume EXCEPT !.pc = IF stopped THEN "done" ELSE "recv"]
    /\ UNCHANGED <<envVars, upstream, caller, mjVars, now, stopped, queue,
                   latest_frame, last_frame_time, last_pts, pc, pcState, pk,
                   rtc, samples>>

\* lines 229-231: the liveness tracker
PtsChanged(pts) == last_pts = NoPts \/ pts # last_pts

\* lines 222-231: track.recv() returns a sample; to_ndarray; pts check
ConsumeRecv ==
    /\ consume.pc = "recv"
    /\ RunSuspended
    /\ MediaFlows
    /\ samples < MaxSamples
    /\ \E pts \in PtsValues :
         /\ upstream = "stalled" => pts = last_pts
         /\ PtsChanged(pts) => now + TimeoutSec <= MaxTime
         /\ consume' = [pc |-> "push", img |-> <<samples + 1>>]
         /\ last_frame_time' = IF PtsChanged(pts) THEN now ELSE last_frame_time
         /\ last_pts' = IF PtsChanged(pts) THEN pts ELSE last_pts
    /\ samples' = samples + 1
    /\ UNCHANGED <<envVars, upstream, caller, mjVars, now, stopped, queue,
                   latest_frame, pc, pcState, pk, rtc>>

\* lines 241-243: track.recv() raises (the track ended): break
ConsumeTrackEnded ==
    /\ consume.pc = "recv"
    /\ RunSuspended
    /\ consume' = [NoTask EXCEPT !.pc = "done"]
    /\ UNCHANGED <<envVars, upstream, caller, mjVars, now, stopped, queue,
                   latest_frame, last_frame_time, last_pts, pc, pcState, pk,
                   rtc, samples>>

\* lines 233-234: the queue is not full: put
ConsumePutFree ==
    /\ consume.pc = "push"
    /\ Len(queue) < 1
    /\ queue' = Append(queue, consume.img)
    /\ consume' = [NoTask EXCEPT !.pc = "head"]
    /\ UNCHANGED <<envVars, upstream, caller, mjVars, now, stopped,
                   latest_frame, last_frame_time, last_pts, pc, pcState, pk,
                   rtc, samples>>

\* lines 233, 235: the queue is full: go to evict
ConsumeSeesFull ==
    /\ consume.pc = "push"
    /\ Len(queue) >= 1
    /\ consume' = [consume EXCEPT !.pc = "evict"]
    /\ UNCHANGED <<envVars, upstream, caller, mjVars, now, stopped, queue,
                   latest_frame, last_frame_time, last_pts, pc, pcState, pk,
                   rtc, samples>>

\* lines 236-240: get_nowait then put; on queue.Empty the image is dropped
ConsumeEvict ==
    /\ consume.pc = "evict"
    /\ queue' = IF queue # <<>> THEN <<consume.img>> ELSE queue
    /\ consume' = [NoTask EXCEPT !.pc = "head"]
    /\ UNCHANGED <<envVars, upstream, caller, mjVars, now, stopped,
                   latest_frame, last_frame_time, last_pts, pc, pcState, pk,
                   rtc, samples>>

(* ====================== WebRTCClient: caller side ===================== *)
\* a read() that takes what the queue holds and has no cached frame to fall
\* back on
RTCReadGetNoCache ==
    /\ engine = "webrtc"
    /\ caller.pc = "idle"
    /\ IF queue # <<>>
       THEN /\ caller' = [caller EXCEPT !.pc = "read_check", !.frame = Head(queue)]
            /\ latest_frame' = Head(queue)
            /\ queue' = Tail(queue)
       ELSE /\ caller' = [caller EXCEPT !.pc = "read_check", !.frame = None]
            /\ UNCHANGED <<latest_frame, queue>>
    /\ UNCHANGED <<envVars, upstream, mjVars, now, stopped, last_frame_time,
                   last_pts, pc, pcState, pk, rtc, consume, samples>>

\* lines 248-252: queue.get(timeout=0.1), or the cached frame on queue.Empty
RTCReadGet ==
    /\ engine = "webrtc"
    /\ caller.pc = "idle"
    /\ IF queue # <<>>
       THEN /\ caller' = [caller EXCEPT !.pc = "read_check", !.frame = Head(queue)]
            /\ latest_frame' = Head(queue)
            /\ queue' = Tail(queue)
       ELSE /\ caller' = [caller EXCEPT !.pc = "read_check", !.frame = latest_frame]
            /\ UNCHANGED <<latest_frame, queue>>
    /\ UNCHANGED <<envVars, upstream, mjVars, now, stopped, last_frame_time,
                   last_pts, pc, pcState, pk, rtc, consume, samples>>

\* the staleness test with the threshold itself still counted as fresh
FreshInclusive == now - last_frame_time <= TimeoutSec

\* line 257
Fresh == now - last_frame_time < TimeoutSec

\* a read() that tests staleness before it looks whether it holds a frame
RTCReadCheckStaleFirst ==
    /\ engine = "webrtc"
    /\ caller.pc = "read_check"
    /\ IF Fresh
       THEN /\ caller' = ReadReturned(caller.frame # None, caller.frame)
            /\ stopped' = stopped
       ELSE /\ caller' = ReadReturned(FALSE, None)
            /\ stopped' = TRUE
    /\ UNCHANGED <<envVars, upstream, mjVars, now, queue, latest_frame,
                   last_frame_time, last_pts, pc, pcState, pk, rtc, consume,
                   samples>>

\* lines 256-265: the staleness check and the return
RTCReadCheck ==
    /\ engine = "webrtc"
    /\ caller.pc = "read_check"
    /\ IF caller.frame # None
       THEN IF Fresh
            THEN /\ caller' = ReadReturned(TRUE, caller.frame)
                 /\ stopped' = stopped
            ELSE /\ caller' = ReadReturned(FALSE, None)
                 /\ stopped' = TRUE
       ELSE /\ caller' = ReadReturned(FALSE, None)
            /\ stopped' = stopped
    /\ UNCHANGED <<envVars, upstream, mjVars, now, queue, latest_frame,
                   last_frame_time, last_pts, pc, pcState, pk, rtc, consume,
                   samples>>

\* lines 267-270: release() up to the join
RTCRelease ==
    /\ engine = "webrtc"
    /\ caller.pc = "idle"
    /\ stopped' = TRUE
    /\ caller' = IF RTCAlive THEN [caller EXCEPT !.pc = "join"]
                 ELSE Returned("release")
    /\ UNCHANGED <<envVars, upstream, mjVars, now, queue, latest_frame,
                   last_frame_time, last_pts, pc, pcState, pk, rtc, consume,
                   samples>>

\* line 270: thread.join(timeout=2) returns because the thread ended
RTCJoinDone ==
    /\ engine = "webrtc"
    /\ caller.pc = "join"
    /\ ~RTCAlive
    /\ caller' = Returned("release")
    /\ UNCHANGED <<envVars, upstream, mjVars, rtcVars>>

\* _run is inside an await that can outlast the join of release(): an HTTP
\* round trip (no timeout given) or the gathering wait (3)
RTCBlocked == rtc.pc \in {"custom_post", "custom_gather", "custom_answer_post",
                          "whep_post"}

\* line 270: thread.join(timeout=2) returns because the 2 elapsed
RTCJoinTimeout ==
    /\ engine = "webrtc"
    /\ caller.pc = "join"
    /\ RTCAlive
    /\ RTCBlocked
    /\ LoopFree
    /\ caller' = Returned("release")
    /\ UNCHANGED <<envVars, upstream, mjVars, rtcVars>>

\* an isOpened() that looks at the stopped flag only
RTCIsOpenedFlagOnly == ~stopped

\* lines 272-273: isOpened()
RTCIsOpened == ~stopped /\ RTCAlive

\* time passes
Tick ==
    /\ engine = "webrtc"
    /\ now < MaxTime
    /\ now' = now + 1
    /\ UNCHANGED <<envVars, upstream, caller, mjVars, stopped, queue,
                   latest_frame, last_frame_time, last_pts, pc, pcState, pk,
                   rtc, consume, samples>>

(* --------------------------- environment ------------------------------ *)
\* the camera stops producing frames, for good
Stall ==
    /\ upstream = "live"
    /\ upstream' = "stalled"
    /\ UNCHANGED <<envVars, caller, mjVars, rtcVars>>

(* =============== _patched_validate_peer_identity ====================== *)
\* text is a sequence of characters; these are the ones the inputs use
Lower(c) == CASE c = "A" -> "a" [] c = "B" -> "b" [] c = "C" -> "c"
              [] OTHER -> c

\* str.replace(":", "").lower()  (lines 44-45)
RECURSIVE Normalise(_)
Normalise(str) ==
    IF str = <<>> THEN <<>>
    ELSE IF Head(str) = ":" THEN Normalise(Tail(str))
         ELSE <<Lower(Head(str))>> \o Normalise(Tail(str))

\* fingerprint.algorithm.upper()  (line 38)
Upper(name) == CASE name = "sha-256" -> "SHA-256"
                 [] name = "sha-1" -> "SHA-1"
                 [] OTHER -> name

\* certificate.digest(algo) of the peer's certificate, for the digest names
\* OpenSSL knows (line 40): b'AA:BB:...'
DigestOf(algo) == IF algo = "SHA-256" THEN <<"A", "B", ":", "C">>
                  ELSE <<"A", "B", ":", "B">>

DigestNames == {"SHA-256", "SHA-1"}

\* remoteParameters.fingerprints: RTCDtlsFingerprint(algorithm, value)
Fingerprints ==
    [algorithm : {"sha-256", "sha-1"},
     value : {<<"A", "B", ":", "C">>, <<"a", "b", "c">>, <<"A", "B", ":", "B">>}]

FingerprintLists ==
    UNION {[1..n -> Fingerprints] : n \in 0..MaxFingerprints}

\* a local variable no statement has assigned yet
Unbound == <<"unbound">>

\* no handshake is being validated
NoHandshake == [pc |-> "none", legacy |-> FALSE, fingerprints |-> <<>>,
                known |-> {}, i |-> 0, digest_str |-> Unbound,
                expected |-> Unbound, state |-> "CONNECTING",
                outcome |-> "none"]

ValUnchanged ==
    UNCHANGED <<engine, served, chunkLens, aiohttp, upstream, caller,
                mjVars, rtcVars>>

\* lines 24-33 and 54: get_peer_certificate; a certificate cryptography
\* accepts goes to the original method, an X509 V1 certificate (InvalidVersion)
\* to the legacy path, which returns at once if no fingerprint is advertised
ValGetCertificate ==
    /\ dtls.pc = "start"
    /\ dtls' = IF ~dtls.legacy
               THEN [dtls EXCEPT !.pc = "done", !.outcome = "original"]
               ELSE IF dtls.fingerprints = <<>>
               THEN [dtls EXCEPT !.pc = "done", !.outcome = "returned"]
               ELSE [dtls EXCEPT !.pc = "loop", !.i = 1]
    /\ ValUnchanged

\* lines 35-48: one turn of the for loop
ValFingerprint ==
    /\ dtls.pc = "loop"
    /\ dtls.i <= Len(dtls.fingerprints)
    /\ LET fingerprint == dtls.fingerprints[dtls.i]
           algo == Upper(fingerprint.algorithm)
           digest_str == Normalise(DigestOf(algo))
           expected == Normalise(fingerprint.value)
       IN  dtls' = IF algo \notin dtls.known
                   THEN [dtls EXCEPT !.i = @ + 1]
                   ELSE IF digest_str = expected
                   THEN [dtls EXCEPT !.pc = "done", !.outcome = "returned",
                                     !.digest_str = digest_str,
                                     !.expected = expected]
                   ELSE [dtls EXCEPT !.i = @ + 1,
                                     !.digest_str = digest_str,
                                     !.expected = expected]
    /\ ValUnchanged

\* lines 50-53: the loop is over without a return: the log line reads
\* digest_str and expected, then the state is set to FAILED
ValMismatch ==
    /\ dtls.pc = "loop"
    /\ dtls.i > Len(dtls.fingerprints)
    /\ dtls' = IF dtls.digest_str = Unbound \/ dtls.expected = Unbound
               THEN [dtls EXCEPT !.pc = "done", !.outcome = "raised"]
               ELSE [dtls EXCEPT !.pc = "done", !.outcome = "returned",
                                 !.state = "FAILED"]
    /\ ValUnchanged

(* --------------------------- streams ---------------------------------- *)
Payload(d) == <<FF, D8, d, FF, D9>>

\* what may precede the first start marker: nothing, header text, a stray
\* end marker
Noises == {<<>>, <<NoiseByte>>, <<FF, D9>>}

\* one or two decodable payloads, noise before the first, header text or
\* nothing between them and after the last
WellFormedStreams ==
    {n \o Payload(1) \o tl : n \in Noises, tl \in {<<>>, <<NoiseByte>>}}
    \cup {n \o Payload(1) \o g \o Payload(2) :
            n \in {<<>>, <<NoiseByte>>}, g \in {<<>>, <<NoiseByte>>}}

\* a payload cv2 cannot decode, followed by one it can
CorruptStreams == {Payload(BadByte) \o Payload(1)}

\* a start marker whose end marker never comes
PartialStreams == {<<FF, D8, 1>>}

AllStreams == WellFormedStreams \cup CorruptStreams \cup PartialStreams

(* ------------------------- specifications ----------------------------- *)
NoRecord == [pc |-> "dead", loopRunning |-> FALSE, start_gather |-> 0,
             custom |-> "none", whep |-> 0, connected |-> FALSE,
             pings |-> 0, pongs |-> 0, ice |-> "new", answered |-> 0]

\* the fields of a WebRTCClient while the handle is an MJPEGClient
RTCAbsent ==
    /\ now = StartTime
    /\ stopped = FALSE
    /\ queue = <<>>
    /\ latest_frame = None
    /\ last_frame_time = 0
    /\ last_pts = NoPts
    /\ pc = 0
    /\ pcState = [p \in 1..2 |-> "none"]
    /\ pk = 0
    /\ rtc = NoRecord
    /\ consume = NoTask
    /\ samples = 0

\* the fields of an MJPEGClient while the handle is a WebRTCClient
MJAbsent ==
    /\ running = FALSE
    /\ opened = FALSE
    /\ last_frame = None
    /\ thread = 0
    /\ mj = [t \in Threads |-> NoThread]

\* MJPEGClient.__init__ (lines 15-27) has returned
MJInit ==
    /\ engine = "mjpeg"
    /\ upstream = "live"
    /\ caller = Returned("init")
    /\ running = TRUE
    /\ opened = TRUE
    /\ last_frame = None
    /\ thread = 1
    /\ mj = [t \in Threads |-> IF t = 1 THEN NewThread ELSE NoThread]
    /\ aiohttp = TRUE
    /\ RTCAbsent

\* WebRTCClient.__init__ (lines 59-76) has returned
RTCInit ==
    /\ engine = "webrtc"
    /\ upstream = "live"
    /\ caller = Returned("init")
    /\ aiohttp \in BOOLEAN
    /\ now = StartTime
    /\ stopped = FALSE
    /\ queue = <<>>
    /\ latest_frame = None
    /\ last_frame_time = 0
    /\ last_pts = NoPts
    /\ pc = 0
    /\ pcState = [p \in 1..2 |-> "none"]
    /\ pk = 0
    /\ rtc = [NoRecord EXCEPT !.pc = "boot"]
    /\ consume = NoTask
    /\ samples = 0
    /\ MJAbsent

Init ==
    /\ MJInit \/ RTCInit
    /\ dtls = NoHandshake
    /\ served = {Payload(1)}
    /\ chunkLens = {5}
    /\ failuresLeft = MaxNetFailures

MJLoopHead == \E t \in Threads : LoopHead(t)
MJConnectError == \E t \in Threads : ConnectError(t)
MJConnectStatus == \E t \in Threads : ConnectStatus(t)
MJConnectOk == \E t \in Threads : ConnectOk(t)
MJNextChunk == \E t \in Threads : NextChunk(t)
MJStreamEnd == \E t \in Threads : StreamEnd(t)
MJStreamError == \E t \in Threads : StreamError(t)
MJProcess == \E t \in Threads : Process(t)
MJStatusSleepDone == \E t \in Threads : StatusSleepDone(t)
MJErrorSleepDone == \E t \in Threads : ErrorSleepDone(t)

MJThreadNext ==
    \/ MJLoopHead
    \/ MJConnectError
    \/ MJConnectStatus
    \/ MJConnectOk
    \/ MJNextChunk
    \/ MJStreamEnd
    \/ MJStreamError
    \/ MJProcess
    \/ MJStatusSleepDone
    \/ MJErrorSleepDone

MJNext ==
    \/ MJThreadNext
    \/ MJStart
    \/ MJStop
    \/ MJJoinDone
    \/ MJJoinTimeout
    \/ MJRead

RTCNext ==
    \/ RunStart
    \/ CustomPost
    \/ CustomSetRemote
    \/ CustomAnswer
    \/ IceGatheringComplete
    \/ CustomGatherDone
    \/ CustomAnswerPost
    \/ WhepFallback
    \/ WhepOffer
    \/ WhepPost
    \/ WhepSetRemote
    \/ KeepaliveMessage
    \/ KeepAliveExit
    \/ RunReturn
    \/ ThreadFinally
    \/ ConsumeHead
    \/ ConsumeRecv
    \/ ConsumeTrackEnded
    \/ ConsumePutFree
    \/ ConsumeSeesFull
    \/ ConsumeEvict
    \/ RTCReadGet
    \/ RTCReadCheck
    \/ RTCRelease
    \/ RTCJoinDone
    \/ RTCJoinTimeout
    \/ Tick

Next ==
    \/ MJNext
    \/ RTCNext
    \/ Stall

Spec == Init /\ [][Next]_vars

\* a WebRTCClient handle alone
RTCOnlyInit ==
    /\ RTCInit
    /\ dtls = NoHandshake
    /\ served = {Payload(1)}
    /\ chunkLens = {5}
    /\ failuresLeft = MaxNetFailures

RTCOnlyNext ==
    \/ RTCNext
    \/ Stall

RTCSpec == RTCOnlyInit /\ [][RTCOnlyNext]_vars

\* one capture thread reading byte streams in chunks of every size
DecInit ==
    /\ MJInit
    /\ dtls = NoHandshake
    /\ served = AllStreams
    /\ chunkLens = 1..MaxChunk
    /\ failuresLeft = MaxDecFailures

DecNext == MJThreadNext

DecSpec == DecInit /\ [][DecNext]_vars

\* one capture thread on byte streams in chunks of every size, and a caller
\* that calls read() at any moment
CacheInit ==
    /\ MJInit
    /\ dtls = NoHandshake
    /\ served = AllStreams
    /\ chunkLens = 1..MaxChunk
    /\ failuresLeft = MaxNetFailures

CacheNext ==
    \/ MJThreadNext
    \/ MJRead

CacheSpec == CacheInit /\ [][CacheNext]_vars


\* one DTLS handshake of a WebRTCClient's peer connection reaches the
\* validation of the peer's identity
ValInit ==
    /\ RTCInit
    /\ served = {Payload(1)}
    /\ chunkLens = {5}
    /\ failuresLeft = MaxNetFailures
    /\ \E legacy \in BOOLEAN, fps \in FingerprintLists,
          known \in SUBSET DigestNames :
         dtls = [NoHandshake EXCEPT !.pc = "start", !.legacy = legacy,
                                    !.fingerprints = fps, !.known = known]

ValNext ==
    \/ ValGetCertificate
    \/ ValFingerprint
    \/ ValMismatch

ValSpec == ValInit /\ [][ValNext]_vars

(* ------------------------------ fairness ------------------------------ *)
\* What the scheduling guarantees: the caller calls read() again and again
\* (whatever else it calls in between), time passes, every bounded wait returns (join, sleep, the gathering wait), and
\* a thread that is not waiting for the network takes its next step.  The
\* network itself promises nothing.
FairSpec ==
    /\ Spec
    /\ SF_vars(MJRead)
    /\ WF_vars(MJJoinDone)
    /\ WF_vars(MJJoinTimeout)
    /\ WF_vars(MJLoopHead)
    /\ WF_vars(MJProcess)
    /\ WF_vars(MJStatusSleepDone)
    /\ WF_vars(MJErrorSleepDone)
    /\ WF_vars(Tick)
    /\ SF_vars(RTCReadGet)
    /\ WF_vars(RTCReadCheck)
    /\ WF_vars(RTCJoinDone)
    /\ WF_vars(RTCJoinTimeout)
    /\ WF_vars(RunStart)
    /\ WF_vars(CustomSetRemote)
    /\ WF_vars(CustomAnswer)
    /\ WF_vars(CustomGatherDone)
    /\ WF_vars(WhepFallback)
    /\ WF_vars(WhepOffer)
    /\ WF_vars(WhepSetRemote)
    /\ WF_vars(KeepAliveExit)
    /\ WF_vars(RunReturn)
    /\ WF_vars(ThreadFinally)
    /\ WF_vars(ConsumeHead)
    /\ WF_vars(ConsumePutFree)
    /\ WF_vars(ConsumeSeesFull)
    /\ WF_vars(ConsumeEvict)

(* ============================== claims ================================ *)

\* C1: for both engines, once the upstream has stopped producing frames for
\* good and read() has returned (True, frame), read() eventually returns
\* (False, None): no engine keeps returning a stale frame forever.
C1_NoStaleFrameForever ==
    (upstream = "stalled" /\ caller.lastOp = "read" /\ caller.ok)
        ~> (caller.lastOp = "read" /\ ~caller.ok)

\* the frames the marker scan yields when it is run on a whole stream until
\* nothing more is found, and the bytes it leaves
RECURSIVE FramesOf(_)
FramesOf(s) ==
    LET sc == Scan(s)
    IN  IF ~sc.found THEN <<>>
        ELSE (IF Imdecode(sc.jpg) # None THEN <<Imdecode(sc.jpg)>> ELSE <<>>)
             \o FramesOf(sc.rest)

RECURSIVE ResidueOf(_)
ResidueOf(s) ==
    LET sc == Scan(s)
    IN  IF ~sc.found THEN s ELSE ResidueOf(sc.rest)

\* C2: once every chunk of a connection's well-formed stream is consumed,
\* the capture loop has emitted exactly the stream's N payloads as frames, in
\* order, and the buffer holds only the bytes after the last end marker,
\* however the stream was split into chunks.
C2_EmitsEveryPayload ==
    \A t \in Threads :
        (/\ mj[t].pc = "iter"
         /\ mj[t].wire = <<>>
         /\ mj[t].stream \in WellFormedStreams)
        => /\ mj[t].emitted = FramesOf(mj[t].stream)
           /\ mj[t].bytes_buffer = ResidueOf(mj[t].stream)

\* C3: the sleeps after successive connection failures are 1, 2, 4, 8, 16,
\* 30, 30, ...: the loop starts at 1, the sleep after a failure is followed by
\* the doubled delay (capped at 30), and a successful decode resets it to 1.
C3_BackoffSequence ==
    [][\A t \in Threads :
         /\ (mj[t].pc = "none" /\ mj'[t].pc = "head")
                => mj'[t].retry_delay = BackoffFloor
         /\ (mj[t].pc \in {"sleep_status", "sleep_exc"} /\ mj'[t].pc = "head")
                => mj'[t].retry_delay = NextDelay(mj[t].retry_delay)
         /\ (mj[t].pc = "proc" /\ mj'[t].emitted # mj[t].emitted)
                => mj'[t].retry_delay = BackoffFloor]_vars

\* what the staleness check of read() returns for the frame it holds, given
\* whether the frame counts as fresh
ReadOutcome(fresh) ==
    caller.pc = "read_check" /\ caller'.pc = "idle" /\ caller.frame # None
    => IF fresh
       THEN caller'.ok /\ caller'.frame = caller.frame /\ stopped' = stopped
       ELSE ~caller'.ok /\ caller'.frame = None /\ stopped' /\ ~RTCIsOpened'

C5_ProgressOnlyOnAdvance ==
    [][samples' # samples
       => IF last_pts = NoPts \/ last_pts' > last_pts
          THEN last_frame_time' = now
          ELSE last_frame_time' = last_frame_time]_vars

\* C6: the WHEP attempt is made at most once; it is never made when the
\* custom attempt connected; and when the custom attempt failed, it has been
\* made by the time _run gives up.
C6_FallbackOnce ==
    /\ rtc.whep <= 1
    /\ rtc.custom = "connected" => rtc.whep = 0
    /\ (rtc.custom = "failed" /\ rtc.pc \in {"ret", "finally", "dead"})
           => rtc.whep = 1

\* witness of C6: the custom attempt failed, WHEP was tried and failed too,
\* and the thread has ended
C6_Witness ==
    /\ rtc.custom = "failed"
    /\ rtc.whep = 1
    /\ rtc.pc = "dead"
    /\ pc = 2

\* C7: isOpened() is True when construction or start() has just returned,
\* and False once stop()/release() has returned.
C7_OpenAfterStart ==
    /\ (engine = "mjpeg" /\ caller.pc = "idle"
            /\ caller.lastOp \in {"init", "start"}) => MJIsOpened
    /\ (engine = "mjpeg" /\ caller.pc = "idle" /\ caller.lastOp = "stop")
            => ~MJIsOpened
    /\ (engine = "webrtc" /\ caller.pc = "idle" /\ caller.lastOp = "init"
            /\ rtc.pc = "boot") => RTCIsOpened
    /\ (engine = "webrtc" /\ caller.pc = "idle" /\ caller.lastOp = "release")
            => ~RTCIsOpened

\* C8: once stop()/release() has returned (and the caller has done nothing
\* since), no step of the background context changes the frame store.
C8_NoWriteAfterRelease ==
    [][(/\ caller.pc = "idle"
        /\ caller.lastOp \in {"stop", "release"}
        /\ caller' = caller)
       => (last_frame' = last_frame /\ queue' = queue)]_vars

\* C9: at most one capture thread of an MJPEG handle is alive.
C9_OneCaptureThread ==
    Cardinality({t \in Threads : Alive(t)}) <= 1

\* C10: when the WebRTC background thread has ended, the peer connection the
\* handle holds is closed.
C10_SessionClosedAtExit ==
    (engine = "webrtc" /\ rtc.pc = "dead" /\ pc # 0) => pcState[pc] = "closed"

\* C11: MJPEG read() returns (True, the cached frame) if a frame has been
\* decoded and (False, None) otherwise, and changes neither the cache nor
\* the capture thread (network, accumulator); the cache is None until the
\* first decode and is replaced by every successful decode and by nothing
\* else, so it always is the most recently decoded frame.
C11_ReadReturnsCache ==
    [][/\ last_frame = None => \A t \in Threads : mj[t].emitted = <<>>
       /\ \A t \in Threads :
            (mj[t].pc = "proc" /\ mj'[t].pc = "iter")
            => IF mj'[t].emitted # mj[t].emitted
               THEN last_frame' = mj'[t].emitted[Len(mj'[t].emitted)]
               ELSE last_frame' = last_frame
       /\ (\A t \in Threads : ~(mj[t].pc = "proc" /\ mj'[t].pc = "iter"))
            => last_frame' = last_frame
       /\ (engine = "mjpeg" /\ caller' # caller /\ caller'.lastOp = "read")
            => /\ caller'.ok = (last_frame # None)
               /\ caller'.frame = last_frame
               /\ last_frame' = last_frame
               /\ mj' = mj]_vars

\* witness of C11: two frames were decoded on one connection and read() has
\* returned the second
C11_Witness ==
    /\ mj[1].emitted = <<<<1>>, <<2>>>>
    /\ last_frame = <<2>>
    /\ caller.lastOp = "read"
    /\ caller.ok
    /\ caller.frame = <<2>>

\* C12: a corrupt payload (markers present, content not decodable) yields
\* no frame, leaves the cache unchanged and keeps the thread on its
\* connection; and the well-formed payload that follows it on the same
\* connection has been decoded and cached once all chunks are consumed.
C12_CorruptSkipped ==
    [][\A t \in Threads :
         /\ (mj[t].pc = "proc" /\ mj'[t].pc # "proc"
                /\ Scan(mj[t].bytes_buffer \o mj[t].chunk).found
                /\ Imdecode(Scan(mj[t].bytes_buffer \o mj[t].chunk).jpg) = None)
            => /\ mj'[t].emitted = mj[t].emitted
               /\ last_frame' = last_frame
               /\ mj'[t].pc = "iter"
         /\ (mj[t].pc = "iter" /\ mj[t].wire = <<>>
                /\ mj[t].stream \in CorruptStreams)
            => /\ mj[t].emitted = <<<<1>>>>
               /\ last_frame = <<1>>]_vars

\* C13: a chunk after which the accumulator holds a start marker with no
\* end marker at or after it emits no frame and removes no byte (the
\* accumulator is the old one plus the chunk, the cache is unchanged); and
\* when the accumulator was in that state, a frame is emitted only by a
\* chunk that supplies the end marker.
C13_PartialKept ==
    [][\A t \in Threads :
         (mj[t].pc = "proc" /\ mj'[t].pc # "proc")
         => LET old == mj[t].bytes_buffer
                buf == old \o mj[t].chunk
                a0  == Find(old, <<FF, D8>>, 0)
                a   == Find(buf, <<FF, D8>>, 0)
                b   == IF a # -1 THEN Find(buf, <<FF, D9>>, a) ELSE -1
            IN  /\ (a # -1 /\ b = -1)
                    => /\ mj'[t].emitted = mj[t].emitted
                       /\ mj'[t].bytes_buffer = buf
                       /\ last_frame' = last_frame
                /\ (a0 # -1 /\ Find(old, <<FF, D9>>, a0) = -1
                        /\ mj'[t].emitted # mj[t].emitted)
                    => /\ b # -1
                       /\ b + 2 > Len(old)
                       /\ mj'[t].emitted
                            = Append(mj[t].emitted, Imdecode(Slice(buf, a, b + 2)))]_vars

\* witness of C13: noise, a start marker and part of the image have arrived,
\* the end marker has not: nothing is emitted, every byte is still there
C13_Witness ==
    /\ mj[1].pc = "iter"
    /\ mj[1].bytes_buffer = <<NoiseByte, FF, D8, 1, FF>>
    /\ mj[1].emitted = <<>>
    /\ mj[1].wire # <<>>
    /\ last_frame = None

\* C17: after a response with a status other than 200 the thread sleeps the
\* current backoff and then doubles it (capped at 30), as it does after a
\* failure that raises.
C17_StatusBacksOff ==
    [][\A t \in Threads :
         (mj[t].pc \in {"sleep_status", "sleep_exc"} /\ mj'[t].pc = "head")
         => mj'[t].retry_delay = NextDelay(mj[t].retry_delay)]_vars

\* a frame is at hand for read(): in the queue or in the cache
FrameAtHand == queue # <<>> \/ latest_frame # None

C15_PongToEveryMessage ==
    rtc.pongs = rtc.pings

\* both negotiation branches have failed and the background thread has ended
BothFailed ==
    /\ engine = "webrtc"
    /\ rtc.custom = "failed"
    /\ rtc.whep = 1
    /\ ~rtc.connected
    /\ rtc.pc = "dead"

\* C16 (as claimed): once both negotiation branches have failed and the
\* background thread has ended, isOpened() is False and every read() that
\* returns returns (False, None).
C16_FailureContained ==
    [][BothFailed
       => /\ ~RTCIsOpened
          /\ (caller.pc = "read_check" /\ caller'.pc = "idle")
                => (~caller'.ok /\ caller'.frame = None)]_vars

\* C16 (amended): once both negotiation branches have failed and the
\* background thread has ended, nothing of the background context runs any
\* more, isOpened() is False, and read() returns (False, None) unless a
\* frame arrived during the custom attempt: that frame it returns with True
\* while less than 5 has passed since the last timestamp change, and from
\* then on (False, None).
C16_FailureContainedUntilStale ==
    [][BothFailed
       => /\ BothFailed'
          /\ rtc' = rtc
          /\ consume.pc \in {"none", "done"} /\ consume' = consume
          /\ ~RTCIsOpened
          /\ (caller.pc = "idle" /\ caller'.pc = "read_check" /\ samples = 0)
                => caller'.frame = None
          /\ (caller.pc = "read_check" /\ caller'.pc = "idle")
                => IF caller.frame # None /\ now - last_frame_time < TimeoutSec
                   THEN caller'.ok /\ caller'.frame = caller.frame
                   ELSE ~caller'.ok /\ caller'.frame = None]_vars

\* witness of C16: both branches failed, the thread has ended, and read()
\* has returned the frame that arrived while the answer was being posted
C16_Witness ==
    /\ BothFailed
    /\ ~RTCIsOpened
    /\ caller.lastOp = "read"
    /\ caller.pc = "idle"
    /\ caller.ok
    /\ caller.frame = <<1>>

\* C18: every push of the consumption loop ends with the queue holding
\* exactly the new image, whatever a concurrent read() does in between.
C18_PushKeepsNewest ==
    [][(consume.pc \in {"push", "evict"} /\ consume'.pc = "head")
       => queue' = <<consume.img>>]_vars

\* C19: the steps of the custom attempt happen in this order only: the 200
\* "offer" response (which sets the session identifier), the remote
\* description, the local answer, the gathering wait; the answer is posted
\* only out of that wait, when gathering is complete or 3 have elapsed, and
\* carries the identifier the offer carried; the attempt is connected only
\* by the reply to that post.
C19_CustomOrder ==
    [][/\ (rtc'.pc = "custom_remote" /\ rtc.pc # "custom_remote")
            => rtc.pc = "custom_post" /\ pk' = SessionId
       /\ (rtc'.pc = "custom_answer" /\ rtc.pc # "custom_answer")
            => rtc.pc = "custom_remote"
       /\ (rtc'.pc = "custom_gather" /\ rtc.pc # "custom_gather")
            => rtc.pc = "custom_answer"
       /\ (rtc'.pc = "custom_answer_post" /\ rtc.pc # "custom_answer_post")
            => /\ rtc.pc = "custom_gather"
               /\ rtc.ice = "complete" \/ now - rtc.start_gather >= GatherWait
               /\ rtc'.answered = SessionId
       /\ (rtc'.answered # rtc.answered /\ rtc'.answered # 0)
            => rtc.pc = "custom_gather" /\ rtc'.pc = "custom_answer_post"
       /\ (rtc'.custom = "connected" /\ rtc.custom # "connected")
            => rtc.pc = "custom_answer_post"]_vars

\* witness of C19: 3 after the engine started, the answer has been posted
\* with the identifier of the offer, and its reply is awaited
C19_Witness ==
    /\ rtc.pc = "custom_answer_post"
    /\ rtc.answered = SessionId
    /\ pk = SessionId
    /\ now = StartTime + GatherWait
    /\ samples = 0
    /\ caller.lastOp = "init"

\* C20: once the WHEP attempt has started, the peer connection of the custom
\* attempt is closed, the handle holds a fresh one, and the session
\* identifier of the failed attempt is gone.
C20_SessionDiscarded ==
    (engine = "webrtc" /\ rtc.whep >= 1)
    => /\ pcState[1] = "closed"
       /\ pc = 2
       /\ pk = 0

(* ------------------------- reconnect epochs --------------------------- *)
\* the bytes of the current connection that iter_content has handed over
ReceivedOf(t) ==
    SubSeq(mj[t].stream, 1, Len(mj[t].stream) - Len(mj[t].wire))

IsSuffix(s, whole) ==
    /\ Len(s) <= Len(whole)
    /\ s = SubSeq(whole, Len(whole) - Len(s) + 1, Len(whole))

\* C21: every decoded payload consists only of bytes received on one single
\* connection: while a connection is being read, the accumulator (with the
\* chunk being appended) is a tail of the bytes received on that connection,
\* so it is empty when the connection starts and the payload cut out of it
\* holds no byte of an earlier connection.
C21_OneEpochPayload ==
    \A t \in Threads :
        /\ mj[t].pc = "iter" => IsSuffix(mj[t].bytes_buffer, ReceivedOf(t))
        /\ mj[t].pc = "proc" =>
              /\ IsSuffix(mj[t].bytes_buffer \o mj[t].chunk, ReceivedOf(t))
              /\ LET sc == Scan(mj[t].bytes_buffer \o mj[t].chunk)
                 IN  sc.found =>
                       \E a \in 0..Len(ReceivedOf(t)) :
                          sc.jpg = Slice(ReceivedOf(t), a, a + Len(sc.jpg))

\* a payload is about to be decoded on a connection that is not the first:
\* a frame of an earlier connection is cached, none of this one is emitted yet
C21_Witness ==
    \E t \in Threads :
        /\ mj[t].pc = "proc"
        /\ last_frame # None
        /\ mj[t].emitted = <<>>
        /\ Scan(mj[t].bytes_buffer \o mj[t].chunk).found

\* C22: after stop()/release() the background context terminates, and the
\* outstanding sub-tasks are cancelled before it exits: once the WebRTC
\* thread has ended, no _consume_track task is left pending on its loop.
C22_SubTasksCancelledAtExit ==
    (engine = "webrtc" /\ rtc.pc = "dead") => consume.pc \in {"none", "done"}

(* ----------------------- legacy validation ---------------------------- *)
\* the certificate's digest equals the fingerprint's value
Matches(fingerprint) ==
    /\ Upper(fingerprint.algorithm) \in dtls.known
    /\ Normalise(DigestOf(Upper(fingerprint.algorithm)))
         = Normalise(fingerprint.value)

\* C23: the legacy validation path never aborts with an error: whatever
\* fingerprints are advertised, it returns, and it has marked the session
\* FAILED exactly when fingerprints were advertised and none of them matches
\* the peer certificate's digest.
C23_LegacyNeverAborts ==
    (dtls.pc = "done" /\ dtls.legacy) =>
        /\ dtls.outcome = "returned"
        /\ dtls.fingerprints # <<>> =>
             (dtls.state = "FAILED" <=>
                \A k \in 1..Len(dtls.fingerprints) :
                    ~Matches(dtls.fingerprints[k]))

(* --------------------------- isOpened --------------------------------- *)
\* what isOpened() returns on the handle
IsOpenedNow == IF engine = "mjpeg" THEN MJIsOpened ELSE RTCIsOpened

\* C24: for both engines isOpened() is monotone: from a state in which it
\* returns False, no step of the caller, of the background thread or of time
\* leads to a state in which it returns True.
C24_IsOpenedMonotone == [][~IsOpenedNow => ~IsOpenedNow']_vars

\* start() has returned on a handle that stop() had closed: the capture runs
\* again and isOpened() still returns False
C24_Witness ==
    /\ engine = "mjpeg"
    /\ caller.pc = "idle"
    /\ caller.lastOp = "start"
    /\ running
    /\ \E t \in Threads : Alive(t)
    /\ ~IsOpenedNow

(* ----------------------- read() before any frame ---------------------- *)
\* C25: a WebRTCClient.read() that starts with no frame at hand holds none
\* after the queue wait; a read() that holds no frame returns (False, None);
\* neither step writes the stopped flag or the liveness tracker, whatever the
\* time; and read() sets the stopped flag only while it holds a frame, that
\* is, after read() has taken a first frame from the queue.
C25_NoFrameNoSelfStop ==
    [][/\ (caller.pc = "idle" /\ caller'.pc = "read_check" /\ ~FrameAtHand)
            => /\ caller'.frame = None
               /\ stopped' = stopped
               /\ last_frame_time' = last_frame_time
               /\ last_pts' = last_pts
       /\ (caller.pc = "read_check" /\ caller'.pc = "idle"
                /\ caller.frame = None)
            => /\ ~caller'.ok
               /\ caller'.frame = None
               /\ stopped' = stopped
               /\ last_frame_time' = last_frame_time
               /\ last_pts' = last_pts
       /\ (caller.pc = "read_check" /\ caller'.pc = "idle"
                /\ stopped' # stopped)
            => /\ caller.frame # None
               /\ latest_frame # None]_vars

\* a read() has returned (False, None) on a connected session that never
\* delivered a frame, at the latest time, and the handle is not stopped
C25_Witness ==
    /\ engine = "webrtc"
    /\ rtc.pc = "keepalive"
    /\ samples = 0
    /\ queue = <<>>
    /\ latest_frame = None
    /\ now = MaxTime
    /\ now - last_frame_time >= TimeoutSec
    /\ caller.pc = "idle"
    /\ caller.lastOp = "read"
    /\ ~caller.ok
    /\ caller.frame = None
    /\ ~stopped

(* ------------------------ the MJPEG frame cache ----------------------- *)
\* C26: the frame cache of an MJPEGClient is never cleared: no step takes
\* last_frame back to None; a read() returns True exactly when a frame is
\* cached, so once one read() has returned (True, frame) every later one
\* returns True; and no step of stop()/release(), the join included, changes
\* the cached frame.
C26_CacheNeverCleared ==
    [][engine = "mjpeg" =>
        /\ last_frame # None => last_frame' # None
        /\ (caller' # caller /\ caller'.lastOp = "read" /\ caller'.pc = "idle")
             => /\ caller'.ok <=> last_frame # None
                /\ caller'.ok => caller'.frame = last_frame
                /\ last_frame' = last_frame
        /\ (caller' # caller /\ (caller'.pc = "join" \/ caller.pc = "join"
                                  \/ caller'.lastOp = "stop"))
             => last_frame' = last_frame]_vars

\* read() has returned (True, frame) after stop(): the capture thread has
\* ended, on a connection that gave no frame, so the frame returned is the
\* one of an earlier connection
C26_Witness ==
    /\ engine = "mjpeg"
    /\ ~running
    /\ ~opened
    /\ thread # 0
    /\ mj[thread].pc = "done"
    /\ mj[thread].emitted = <<>>
    /\ caller.pc = "idle"
    /\ caller.lastOp = "read"
    /\ caller.ok
    /\ caller.frame = last_frame

====
